---- MODULE Spec2Model ----
(***************************************************************************)
(* Model of LifecycleService                                               *)
(* (src/vs/workbench/services/lifecycle/electron-browser/lifecycleService) *)
(*                                                                         *)
(* The service lives in a renderer process.  The main process sends        *)
(* 'vscode:beforeUnload' requests; the service broadcasts onWillShutdown,  *)
(* collects vetos (booleans or promises of booleans), and answers on the   *)
(* request's okChannel or cancelChannel.  The reason of the shutdown is    *)
(* kept in workspace storage so that the next instance can derive its      *)
(* startup kind from it.                                                   *)
(*                                                                         *)
(* JavaScript handlers run to completion, and WinJS promises invoke their  *)
(* callbacks synchronously when they are (or become) complete, so every    *)
(* action below is one whole handler run.  What the collaborators see      *)
(* (ipc, message service, event subscribers) is recorded, in call order,   *)
(* in the variable calls, each entry with the flag and the store as they   *)
(* were at the moment of the call.                                         *)
(***************************************************************************)
EXTENDS Integers, Sequences, FiniteSets, TLC

\* ---- bounds of the model ------------------------------------------------
MaxRequests == 2
MaxVetos == 2
MaxInstances == 2

\* ---- JavaScript values --------------------------------------------------
\* An optional value: None is JavaScript's undefined, Some(v) a defined v.
None == <<>>
Some(v) == <<v>>

\* enum ShutdownReason (vs/platform/lifecycle/common/lifecycle)
CLOSE == 1
QUIT == 2
RELOAD == 3
LOAD == 4
ShutdownReason == {CLOSE, QUIT, RELOAD, LOAD}

\* enum StartupKind
StartupKind == {"NewWindow", "ReloadedWindow", "ReopenedWindow"}

_lastShutdownReasonKey == "lifecyle.lastShutdownReason"

\* this._windowService.getWindowId()
windowId == "windowId"

\* ---- workspace storage --------------------------------------------------
DecimalDigits == <<"0", "1", "2", "3", "4", "5", "6", "7", "8", "9">>

\* Variant: the text is taken one place too early in the table.
JSONStringify_OffByOne(n) == DecimalDigits[n]

\* JSON.stringify of a small non-negative integer: its decimal text.
JSONStringify(n) == DecimalDigits[n + 1]

\* parseInt(text, 10) of a one-digit text; None stands for NaN.
parseInt(text) ==
    IF \E n \in 0..9 : DecimalDigits[n + 1] = text
    THEN Some(CHOOSE n \in 0..9 : DecimalDigits[n + 1] = text)
    ELSE None

EmptyStore == [k \in {} |-> ""]

\* Variant: a value already stored under the key is kept.
StorageStore_KeepExisting(s, key, value) ==
    [k \in DOMAIN s \cup {key} |-> IF k \in DOMAIN s THEN s[k] ELSE value]

\* storageService.store(key, value, StorageScope.WORKSPACE)
StorageStore(s, key, value) ==
    [k \in DOMAIN s \cup {key} |-> IF k = key THEN value ELSE s[k]]

\* storageService.remove(key, StorageScope.WORKSPACE)
StorageRemove(s, key) == [k \in DOMAIN s \ {key} |-> s[k]]

\* storageService.getInteger(key, StorageScope.WORKSPACE)
StorageGetInteger(s, key) ==
    IF key \in DOMAIN s THEN parseInt(s[key]) ELSE None

\* What a previous instance can have left in the workspace store.
PriorStores ==
    {EmptyStore} \cup
    {StorageStore(EmptyStore, _lastShutdownReasonKey, JSONStringify(r)) :
        r \in ShutdownReason}

\* ---- state --------------------------------------------------------------
VARIABLES
    store,               \* workspace storage: key -> text
    instance,            \* number of LifecycleService instances built so far
    lastShutdownReason,  \* the constructor's local: what getInteger returned
    _startupKind,
    _willShutdown,       \* None (never assigned), Some(TRUE) or Some(FALSE)
    requests,            \* the beforeUnload requests of this instance
    calls                \* calls made to collaborators, in order

vars == <<store, instance, lastShutdownReason, _startupKind, _willShutdown,
          requests, calls>>

\* ---- objections ---------------------------------------------------------
\* veto(value): value is a boolean, or a promise that is pending, already
\* completed with true/false, or already failed.
Immediate(b) == [promise |-> FALSE, state |-> IF b THEN "true" ELSE "false"]
Deferred(st) == [promise |-> TRUE, state |-> st]
PromiseStates == {"pending", "true", "false", "error"}
Objections ==
    {Immediate(TRUE), Immediate(FALSE)} \cup {Deferred(st) : st \in PromiseStates}
VetoLists == UNION {[1..n -> Objections] : n \in 0..MaxVetos}

\* The shape of the state.
TypeOK ==
    /\ DOMAIN store \subseteq {_lastShutdownReasonKey}
    /\ \A k \in DOMAIN store : store[k] \in {JSONStringify(r) : r \in ShutdownReason}
    /\ instance \in 1..MaxInstances
    /\ lastShutdownReason \in {None} \cup {Some(r) : r \in ShutdownReason}
    /\ _startupKind \in StartupKind
    /\ _willShutdown \in {None, Some(TRUE), Some(FALSE)}
    /\ Len(requests) <= MaxRequests
    /\ \A req \in DOMAIN requests :
          /\ requests[req].reason \in ShutdownReason
          /\ requests[req].vetos \in VetoLists
          /\ requests[req].promises \subseteq DOMAIN requests[req].vetos
          /\ requests[req].lazyValue \in BOOLEAN
          /\ requests[req].veto \in {None, Some(TRUE), Some(FALSE)}
          /\ requests[req].late \in VetoLists
    /\ \A k \in DOMAIN calls :
          calls[k].op \in {"onWillShutdown.fire", "messageService.show",
                           "onShutdown.fire", "ipc.send"}

\* ---- calls to collaborators ---------------------------------------------
\* m is the mutable part a handler works on: [store, willShutdown, calls].
Call(m, op, req, channel, arg) ==
    [op |-> op, req |-> req, channel |-> channel, arg |-> arg,
     willShutdown |-> m.willShutdown, store |-> m.store]

Do(m, op, req, channel, arg) ==
    [m EXCEPT !.calls = Append(@, Call(m, op, req, channel, arg))]

\* Variant: the message service is not told about the failure.
ShowError_Silent(m, req) == m

\* this._messageService.show(Severity.Error, toErrorMessage(err))
ShowError(m, req) == Do(m, "messageService.show", req, "", "Error")

\* ---- the classifier of the constructor ----------------------------------
\* Variant: the two comparisons of the constructor exchanged.
StartupKindOf_Swapped(reason) ==
    IF reason = Some(LOAD) THEN "ReloadedWindow"
    ELSE IF reason = Some(RELOAD) THEN "ReopenedWindow"
    ELSE "NewWindow"

StartupKindOf(reason) ==
    IF reason = Some(RELOAD) THEN "ReloadedWindow"
    ELSE IF reason = Some(LOAD) THEN "ReopenedWindow"
    ELSE "NewWindow"

\* ---- the done callback of the beforeUnload handler ----------------------
\* Variant: the else is missing, a veto falls through to the ok branch.
Done_FallThrough(m, req, reason, veto) ==
    LET m1 == IF veto
              THEN Do([m EXCEPT !.store = StorageRemove(@, _lastShutdownReasonKey),
                                !.willShutdown = Some(FALSE)],
                      "ipc.send", req, "cancelChannel", windowId)
              ELSE m
        m2 == Do(m1, "onShutdown.fire", req, "", reason)
    IN  Do(m2, "ipc.send", req, "okChannel", windowId)

\* Variant: the reason is removed from the store whatever the decision.
Done_ClearAlways(m, req, reason, veto) ==
    LET m0 == [m EXCEPT !.store = StorageRemove(@, _lastShutdownReasonKey)] IN
    IF veto
    THEN Do([m0 EXCEPT !.willShutdown = Some(FALSE)],
            "ipc.send", req, "cancelChannel", windowId)
    ELSE Do(Do(m0, "onShutdown.fire", req, "", reason),
            "ipc.send", req, "okChannel", windowId)

\* Variant: a veto does not reset the flag.
Done_NoFlagReset(m, req, reason, veto) ==
    IF veto
    THEN Do([m EXCEPT !.store = StorageRemove(@, _lastShutdownReasonKey)],
            "ipc.send", req, "cancelChannel", windowId)
    ELSE Do(Do(m, "onShutdown.fire", req, "", reason),
            "ipc.send", req, "okChannel", windowId)

\* Variant: onShutdown is fired before the decision is looked at.
Done_FireAlways(m, req, reason, veto) ==
    LET m0 == Do(m, "onShutdown.fire", req, "", reason) IN
    IF veto
    THEN Do([m0 EXCEPT !.store = StorageRemove(@, _lastShutdownReasonKey),
                       !.willShutdown = Some(FALSE)],
            "ipc.send", req, "cancelChannel", windowId)
    ELSE Do(m0, "ipc.send", req, "okChannel", windowId)

\* Variant: the reply is sent first, the other effects follow.
Done_SendFirst(m, req, reason, veto) ==
    IF veto
    THEN LET m1 == Do(m, "ipc.send", req, "cancelChannel", windowId)
         IN  [m1 EXCEPT !.store = StorageRemove(@, _lastShutdownReasonKey),
                        !.willShutdown = Some(FALSE)]
    ELSE LET m1 == Do(m, "ipc.send", req, "okChannel", windowId)
         IN  Do(m1, "onShutdown.fire", req, "", reason)

Done(m, req, reason, veto) ==
    IF veto
    THEN LET m1 == [m EXCEPT !.store = StorageRemove(@, _lastShutdownReasonKey)]
             m2 == [m1 EXCEPT !.willShutdown = Some(FALSE)]
         IN  Do(m2, "ipc.send", req, "cancelChannel", windowId)
    ELSE LET m1 == Do(m, "onShutdown.fire", req, "", reason)
         IN  Do(m1, "ipc.send", req, "okChannel", windowId)

\* ---- the then-callbacks of a deferred veto ------------------------------
\* value => { if (value) lazyValue = true }, err => { ...; lazyValue = true }
\* Variant: lazyValue is assigned the value instead of being set on a veto.
Recorded_LastWins(lazyValue, state) ==
    IF state = "pending" THEN lazyValue ELSE state \in {"true", "error"}

\* Variant: the error callback does not set lazyValue.
Recorded_IgnoreError(lazyValue, state) == lazyValue \/ state = "true"

Recorded(lazyValue, state) == lazyValue \/ state \in {"true", "error"}

\* ---- onBeforeUnload: the scan of the vetos ------------------------------
\* Variant of Scan: an immediate true is remembered in lazyValue and the loop
\* goes on, so that the decision waits for the join.
RECURSIVE Scan_NoShortCircuit(_, _, _, _)
Scan_NoShortCircuit(vetos, i, req, acc) ==
    IF i > Len(vetos) THEN acc
    ELSE LET valueOrPromise == vetos[i] IN
         IF valueOrPromise.promise
         THEN Scan_NoShortCircuit(vetos, i + 1, req,
                [acc EXCEPT
                   !.promises = @ \cup {i},
                   !.lazyValue = @ \/ valueOrPromise.state \in {"true", "error"},
                   !.m = IF valueOrPromise.state = "error"
                         THEN Do(@, "messageService.show", req, "", "Error") ELSE @])
         ELSE Scan_NoShortCircuit(vetos, i + 1, req,
                [acc EXCEPT !.lazyValue = @ \/ valueOrPromise.state = "true"])

\* Variant of Scan: an immediate true is noted and the loop goes on
\* attaching callbacks to the deferred vetos behind it.
RECURSIVE Scan_AttachAfterTrue(_, _, _, _)
Scan_AttachAfterTrue(vetos, i, req, acc) ==
    IF i > Len(vetos) THEN acc
    ELSE LET valueOrPromise == vetos[i] IN
         IF valueOrPromise.promise
         THEN Scan_AttachAfterTrue(vetos, i + 1, req,
                [acc EXCEPT
                   !.promises = @ \cup {i},
                   !.lazyValue = @ \/ valueOrPromise.state \in {"true", "error"},
                   !.m = IF valueOrPromise.state = "error"
                         THEN Do(@, "messageService.show", req, "", "Error") ELSE @])
         ELSE Scan_AttachAfterTrue(vetos, i + 1, req,
                [acc EXCEPT !.returned = @ \/ valueOrPromise.state = "true"])

\* acc = [m, promises, lazyValue, returned]: promises is the set of indices
\* whose then-callbacks were attached; returned says the loop left with
\* TPromise.as(true).  A promise that is already complete runs its callback
\* at once.
RECURSIVE Scan(_, _, _, _)
Scan(vetos, i, req, acc) ==
    IF i > Len(vetos) THEN acc
    ELSE LET valueOrPromise == vetos[i] IN
         IF ~valueOrPromise.promise /\ valueOrPromise.state = "true"
         THEN [acc EXCEPT !.returned = TRUE]
         ELSE IF valueOrPromise.promise
         THEN Scan(vetos, i + 1, req,
                [acc EXCEPT
                   !.promises = @ \cup {i},
                   !.lazyValue = Recorded(@, valueOrPromise.state),
                   !.m = IF valueOrPromise.state = "error"
                         THEN ShowError(@, req) ELSE @])
         ELSE Scan(vetos, i + 1, req, acc)

\* The number of veto() calls made on this instance's events so far.
RECURSIVE VetoCount(_)
VetoCount(reqs) ==
    IF reqs = <<>> THEN 0
    ELSE Len(Head(reqs).vetos) + Len(Head(reqs).late) + VetoCount(Tail(reqs))

\* Variant: the join is complete as soon as one joined promise is.
JoinComplete_Any(vetos, promises) ==
    promises = {} \/ \E i \in promises : vetos[i].state # "pending"

\* TPromise.join(promises) is complete when every joined promise is.
JoinComplete(vetos, promises) == \A i \in promises : vetos[i].state # "pending"

\* ---- actions ------------------------------------------------------------
Init ==
    \E prior \in PriorStores :
        /\ lastShutdownReason = StorageGetInteger(prior, _lastShutdownReasonKey)
        /\ store = StorageRemove(prior, _lastShutdownReasonKey)
        /\ _startupKind = StartupKindOf(StorageGetInteger(prior, _lastShutdownReasonKey))
        /\ instance = 1
        /\ _willShutdown = None
        /\ requests = <<>>
        /\ calls = <<>>

\* Variant of Construct: the key is removed only when it was classified.
Construct_ConditionalRemove ==
    /\ instance < MaxInstances
    /\ instance' = instance + 1
    /\ lastShutdownReason' = StorageGetInteger(store, _lastShutdownReasonKey)
    /\ store' = IF lastShutdownReason' \in {Some(RELOAD), Some(LOAD)}
                THEN StorageRemove(store, _lastShutdownReasonKey) ELSE store
    /\ _startupKind' = IF lastShutdownReason' = Some(RELOAD) THEN "ReloadedWindow"
                       ELSE IF lastShutdownReason' = Some(LOAD) THEN "ReopenedWindow"
                       ELSE "NewWindow"
    /\ _willShutdown' = None
    /\ requests' = <<>>
    /\ calls' = <<>>

\* A new instance is constructed on the same workspace store (the window
\* was reloaded, reopened, or the previous process died).
Construct ==
    /\ instance < MaxInstances
    /\ instance' = instance + 1
    /\ lastShutdownReason' = StorageGetInteger(store, _lastShutdownReasonKey)
    /\ store' = StorageRemove(store, _lastShutdownReasonKey)
    /\ _startupKind' = StartupKindOf(lastShutdownReason')
    /\ _willShutdown' = None
    /\ requests' = <<>>
    /\ calls' = <<>>

\* Variant of BeforeUnload: the broadcast comes first, the flag and the
\* store are written after it.
BeforeUnload_FireFirst(reason, vetos) ==
    /\ Len(requests) < MaxRequests
    /\ VetoCount(requests) + Len(vetos) <= MaxVetos
    /\ LET req == Len(requests) + 1
           m0 == Do([store |-> store, willShutdown |-> _willShutdown,
                     calls |-> calls],
                    "onWillShutdown.fire", req, "", reason)
           m1 == [m0 EXCEPT
                    !.store = StorageStore(@, _lastShutdownReasonKey,
                                           JSONStringify(reason)),
                    !.willShutdown = Some(TRUE)]
           acc == Scan(vetos, 1, req,
                       [m |-> m1, promises |-> {}, lazyValue |-> FALSE,
                        returned |-> FALSE])
           veto == IF Len(vetos) = 0 THEN Some(FALSE)
                   ELSE IF acc.returned THEN Some(TRUE)
                   ELSE IF JoinComplete(vetos, acc.promises)
                   THEN Some(acc.lazyValue)
                   ELSE None
           m2 == IF veto = None THEN acc.m
                 ELSE Done(acc.m, req, reason, veto[1])
       IN  /\ requests' = Append(requests,
                 [reason |-> reason, vetos |-> vetos,
                  promises |-> acc.promises, lazyValue |-> acc.lazyValue,
                  veto |-> veto, late |-> <<>>])
           /\ store' = m2.store
           /\ _willShutdown' = m2.willShutdown
           /\ calls' = m2.calls
    /\ UNCHANGED <<instance, lastShutdownReason, _startupKind>>

\* ipc.on('vscode:beforeUnload', ...): the whole handler, with the
\* broadcast in which the listeners submit vetos.
BeforeUnload(reason, vetos) ==
    /\ Len(requests) < MaxRequests
    /\ VetoCount(requests) + Len(vetos) <= MaxVetos
    /\ LET req == Len(requests) + 1
           m0 == [store |-> StorageStore(store, _lastShutdownReasonKey,
                                         JSONStringify(reason)),
                  willShutdown |-> Some(TRUE),
                  calls |-> calls]
           m1 == Do(m0, "onWillShutdown.fire", req, "", reason)
           acc == Scan(vetos, 1, req,
                       [m |-> m1, promises |-> {}, lazyValue |-> FALSE,
                        returned |-> FALSE])
           veto == IF Len(vetos) = 0 THEN Some(FALSE)
                   ELSE IF acc.returned THEN Some(TRUE)
                   ELSE IF JoinComplete(vetos, acc.promises)
                   THEN Some(acc.lazyValue)
                   ELSE None
           m2 == IF veto = None THEN acc.m
                 ELSE Done(acc.m, req, reason, veto[1])
       IN  /\ requests' = Append(requests,
                 [reason |-> reason, vetos |-> vetos,
                  promises |-> acc.promises, lazyValue |-> acc.lazyValue,
                  veto |-> veto, late |-> <<>>])
           /\ store' = m2.store
           /\ _willShutdown' = m2.willShutdown
           /\ calls' = m2.calls
    /\ UNCHANGED <<instance, lastShutdownReason, _startupKind>>

\* Variant of Settle: lazyValue is one variable shared by all the requests
\* instead of a local of each onBeforeUnload call.
Settle_SharedLazyValue(req, i, outcome) ==
    /\ req \in DOMAIN requests
    /\ i \in DOMAIN requests[req].vetos
    /\ requests[req].vetos[i].promise
    /\ requests[req].vetos[i].state = "pending"
    /\ LET r == requests[req]
           vetos == [r.vetos EXCEPT ![i].state = outcome]
           attached == i \in r.promises
           shared == \E q \in DOMAIN requests : requests[q].lazyValue
           lazyValue == IF attached THEN shared \/ outcome \in {"true", "error"}
                        ELSE shared
           m0 == [store |-> store, willShutdown |-> _willShutdown, calls |-> calls]
           m1 == IF attached /\ outcome = "error" THEN ShowError(m0, req) ELSE m0
           joined == r.veto = None /\ JoinComplete(vetos, r.promises)
           m2 == IF joined THEN Done(m1, req, r.reason, lazyValue) ELSE m1
       IN  /\ requests' = [requests EXCEPT
                 ![req].vetos = vetos,
                 ![req].lazyValue = lazyValue,
                 ![req].veto = IF joined THEN Some(lazyValue) ELSE @]
           /\ store' = m2.store
           /\ _willShutdown' = m2.willShutdown
           /\ calls' = m2.calls
    /\ UNCHANGED <<instance, lastShutdownReason, _startupKind>>

\* A pending promise handed to veto() completes (outcome "true"/"false")
\* or fails ("error").  Its then-callbacks run if the scan attached them,
\* and the join, if this was its last pending promise, runs done.
Settle(req, i, outcome) ==
    /\ req \in DOMAIN requests
    /\ i \in DOMAIN requests[req].vetos
    /\ requests[req].vetos[i].promise
    /\ requests[req].vetos[i].state = "pending"
    /\ LET r == requests[req]
           vetos == [r.vetos EXCEPT ![i].state = outcome]
           attached == i \in r.promises
           lazyValue == IF attached THEN Recorded(r.lazyValue, outcome)
                        ELSE r.lazyValue
           m0 == [store |-> store, willShutdown |-> _willShutdown, calls |-> calls]
           m1 == IF attached /\ outcome = "error" THEN ShowError(m0, req) ELSE m0
           joined == r.veto = None /\ JoinComplete(vetos, r.promises)
           m2 == IF joined THEN Done(m1, req, r.reason, lazyValue) ELSE m1
       IN  /\ requests' = [requests EXCEPT
                 ![req].vetos = vetos,
                 ![req].lazyValue = lazyValue,
                 ![req].veto = IF joined THEN Some(lazyValue) ELSE @]
           /\ store' = m2.store
           /\ _willShutdown' = m2.willShutdown
           /\ calls' = m2.calls
    /\ UNCHANGED <<instance, lastShutdownReason, _startupKind>>

\* The values of the late veto() calls that are followed: the ones that
\* would show if the call were taken into account, an immediate veto and a
\* promise that has failed.
LateValues == {Immediate(TRUE), Deferred("error")}

\* Variant of LateVeto: a late veto(true) on a request that is still
\* waiting is taken as its decision.
LateVeto_Counted(req, value) ==
    /\ req \in DOMAIN requests
    /\ VetoCount(requests) < MaxVetos
    /\ LET r == requests[req]
           decides == r.veto = None /\ value = Immediate(TRUE)
           m0 == [store |-> store, willShutdown |-> _willShutdown, calls |-> calls]
           m1 == IF decides THEN Done(m0, req, r.reason, TRUE) ELSE m0
       IN  /\ requests' = [requests EXCEPT
                 ![req].late = Append(@, value),
                 ![req].veto = IF decides THEN Some(TRUE) ELSE @]
           /\ store' = m1.store
           /\ _willShutdown' = m1.willShutdown
           /\ calls' = m1.calls
    /\ UNCHANGED <<instance, lastShutdownReason, _startupKind>>

\* A listener that kept the ShutdownEvent of request req calls veto(value)
\* after the broadcast has returned: the value is pushed onto the array of
\* that onBeforeUnload call, whose loop is over.  The array is then
\* vetos \o late, of which the loop has seen vetos.
LateVeto(req, value) ==
    /\ req \in DOMAIN requests
    /\ VetoCount(requests) < MaxVetos
    /\ requests' = [requests EXCEPT ![req].late = Append(@, value)]
    /\ UNCHANGED <<store, instance, lastShutdownReason, _startupKind,
                   _willShutdown, calls>>

Next ==
    \/ Construct
    \/ \E reason \in ShutdownReason, vetos \in VetoLists : BeforeUnload(reason, vetos)
    \/ \E req \in 1..MaxRequests, i \in 1..MaxVetos, outcome \in {"true", "false", "error"} :
          Settle(req, i, outcome)
    \/ \E req \in 1..MaxRequests, value \in LateValues : LateVeto(req, value)

Spec == Init /\ [][Next]_vars

\* ---- what the collaborators saw ------------------------------------------
\* The indices of the calls of operation op made for request req.
CallsOf(op, req) == {k \in DOMAIN calls : calls[k].op = op /\ calls[k].req = req}

\* The replies sent for request req on its channel ("okChannel"/"cancelChannel").
Replies(req, channel) ==
    {k \in CallsOf("ipc.send", req) : calls[k].channel = channel}

HasImmediateTrue(vetos) ==
    \E i \in DOMAIN vetos : ~vetos[i].promise /\ vetos[i].state = "true"

DeferredIn(vetos) == {i \in DOMAIN vetos : vetos[i].promise}

PendingIn(vetos) == {i \in DeferredIn(vetos) : vetos[i].state = "pending"}

FailedIn(vetos) == {i \in DeferredIn(vetos) : vetos[i].state = "error"}

KeyPresent(s) == _lastShutdownReasonKey \in DOMAIN s

\* ---- C1 ------------------------------------------------------------------
\* C1: for every request whose veto resolution has completed, the window id
\* has been sent exactly once: once on cancelChannel and never on okChannel
\* when the decision is a veto, once on okChannel and never on cancelChannel
\* when it is not.
C1_ReplyExactlyOnce ==
    \A req \in DOMAIN requests :
        requests[req].veto # None =>
            /\ Cardinality(Replies(req, "cancelChannel")) =
                   (IF requests[req].veto = Some(TRUE) THEN 1 ELSE 0)
            /\ Cardinality(Replies(req, "okChannel")) =
                   (IF requests[req].veto = Some(FALSE) THEN 1 ELSE 0)
            /\ \A k \in CallsOf("ipc.send", req) : calls[k].arg = windowId

\* One request was vetoed and another proceeded; both were answered.
C1_Witness ==
    /\ \E req \in DOMAIN requests :
          requests[req].veto = Some(TRUE) /\ Replies(req, "cancelChannel") # {}
    /\ \E req \in DOMAIN requests :
          requests[req].veto = Some(FALSE) /\ Replies(req, "okChannel") # {}

\* ---- C2 ------------------------------------------------------------------
\* C2 as stated: whenever a reply (cancel or ok) is sent, the persisted
\* reason key is absent from the store.
C2_KeyAbsentAtEveryReply ==
    \A k \in DOMAIN calls :
        calls[k].op = "ipc.send" => ~KeyPresent(calls[k].store)

\* C2 (amended): the persisted reason key is absent whenever a cancel reply
\* is sent; a request that proceeds does not clear it: after a single request
\* with reason R has proceeded, the key held R when the ok reply was sent and
\* still holds it.
C2_KeyAbsentAfterVetoKeptOnProceed ==
    /\ \A k \in DOMAIN calls :
          (calls[k].op = "ipc.send" /\ calls[k].channel = "cancelChannel")
              => ~KeyPresent(calls[k].store)
    /\ (Len(requests) = 1 /\ requests[1].veto = Some(FALSE)) =>
          /\ KeyPresent(store)
          /\ store[_lastShutdownReasonKey] = JSONStringify(requests[1].reason)
          /\ \A k \in Replies(1, "okChannel") : calls[k].store = store

\* A lone request proceeded after its deferred veto completed with false,
\* and the key is still in the store.
C2_Witness ==
    /\ Len(requests) = 1
    /\ requests[1].veto = Some(FALSE)
    /\ DeferredIn(requests[1].vetos) # {}
    /\ Replies(1, "okChannel") # {}
    /\ KeyPresent(store)

\* ---- C3 ------------------------------------------------------------------
\* C3 as stated: willShutdown is true only while some request is pending
\* resolution.
C3_FlagTrueOnlyWhilePending ==
    _willShutdown = Some(TRUE) =>
        \E req \in DOMAIN requests : requests[req].veto = None

AcceptCalls == {k \in DOMAIN calls : calls[k].op = "onWillShutdown.fire"}

CancelCalls ==
    {k \in DOMAIN calls :
        calls[k].op = "ipc.send" /\ calls[k].channel = "cancelChannel"}

\* C3 (amended): willShutdown is unset (not true) before any request has
\* been accepted, is set to true when a request is accepted and is reset to
\* false only by a veto: it is true exactly when a request has been accepted
\* and no veto was decided since the last acceptance, so it stays true after
\* a decision to proceed.
C3_FlagTrueUntilVeto ==
    _willShutdown =
        IF AcceptCalls = {} THEN None
        ELSE IF \E a \in AcceptCalls : \A c \in CancelCalls : c < a
        THEN Some(TRUE)
        ELSE Some(FALSE)

\* Nothing is pending: the only request proceeded, and the flag is still true.
C3_Witness ==
    /\ Len(requests) = 1
    /\ requests[1].veto = Some(FALSE)
    /\ _willShutdown = Some(TRUE)

\* ---- C4 ------------------------------------------------------------------
\* C4: a request whose objection list contains an immediate true is decided
\* as a veto and has its cancel reply by the time its handler returns,
\* whatever the state of the deferred objections of the list.
C4_ImmediateTrueShortCircuits ==
    \A req \in DOMAIN requests :
        HasImmediateTrue(requests[req].vetos) =>
            /\ requests[req].veto = Some(TRUE)
            /\ Cardinality(Replies(req, "cancelChannel")) = 1

\* A pending deferred objection precedes the immediate true, and the cancel
\* reply is there.
C4_Witness ==
    \E req \in DOMAIN requests :
        /\ Len(requests[req].vetos) = 2
        /\ requests[req].vetos[1] = Deferred("pending")
        /\ requests[req].vetos[2] = Immediate(TRUE)
        /\ Replies(req, "cancelChannel") # {}

\* ---- C5 ------------------------------------------------------------------
\* C5: while a request without an immediate true has a deferred objection
\* that is not settled, it has no decision: nothing was sent on either of
\* its channels and onShutdown was not fired for it.
C5_NoDecisionBeforeAllSettled ==
    \A req \in DOMAIN requests :
        (~HasImmediateTrue(requests[req].vetos)
            /\ PendingIn(requests[req].vetos) # {}) =>
            /\ requests[req].veto = None
            /\ CallsOf("ipc.send", req) = {}
            /\ CallsOf("onShutdown.fire", req) = {}

\* One deferred objection has completed with true or failed, another is
\* still pending, and no reply was sent.
C5_Witness ==
    \E req \in DOMAIN requests :
        /\ ~HasImmediateTrue(requests[req].vetos)
        /\ PendingIn(requests[req].vetos) # {}
        /\ \E i \in DeferredIn(requests[req].vetos) :
              requests[req].vetos[i].state \in {"true", "error"}
        /\ CallsOf("ipc.send", req) = {}

\* ---- C6 ------------------------------------------------------------------
\* C6: a request without an immediate true whose deferred objections have
\* all settled is decided, and the decision is a veto exactly when some
\* deferred objection completed with true or failed; an empty list gives
\* false.
C6_DecisionOfSettledList ==
    \A req \in DOMAIN requests :
        LET vetos == requests[req].vetos IN
        (~HasImmediateTrue(vetos) /\ PendingIn(vetos) = {}) =>
            requests[req].veto =
                Some(\E i \in DeferredIn(vetos) : vetos[i].state \in {"true", "error"})

\* A deferred true was followed by a deferred false: the decision is true.
C6_Witness ==
    \E req \in DOMAIN requests :
        /\ Len(requests[req].vetos) = 2
        /\ requests[req].vetos[1] = Deferred("true")
        /\ requests[req].vetos[2] = Deferred("false")
        /\ requests[req].veto = Some(TRUE)

\* ---- C7 ------------------------------------------------------------------
\* C7: the message service is shown one error (severity Error) for each
\* failed deferred objection of a request without an immediate true, is
\* never shown more errors than objections failed, and a request without an
\* immediate true whose deferred objections all settled, one of them by
\* failing, is vetoed.
C7_FailureIsVetoAndReported ==
    \A req \in DOMAIN requests :
        LET vetos == requests[req].vetos
            reports == CallsOf("messageService.show", req)
        IN  /\ \A k \in reports : calls[k].arg = "Error"
            /\ Cardinality(reports) <= Cardinality(FailedIn(vetos))
            /\ ~HasImmediateTrue(vetos) =>
                  Cardinality(reports) = Cardinality(FailedIn(vetos))
            /\ (~HasImmediateTrue(vetos) /\ PendingIn(vetos) = {}
                  /\ FailedIn(vetos) # {}) =>
                  /\ requests[req].veto = Some(TRUE)
                  /\ Cardinality(Replies(req, "cancelChannel")) = 1

\* An immediate false and a deferred objection that failed: one report, and
\* the cancel reply.
C7_Witness ==
    \E req \in DOMAIN requests :
        /\ Len(requests[req].vetos) = 2
        /\ requests[req].vetos[1] = Immediate(FALSE)
        /\ requests[req].vetos[2] = Deferred("error")
        /\ Cardinality(CallsOf("messageService.show", req)) = 1
        /\ Replies(req, "cancelChannel") # {}

\* ---- C8 ------------------------------------------------------------------
\* The startup kind that belongs to the text found under the key.
KindOfStored(s) ==
    IF KeyPresent(s) /\ s[_lastShutdownReasonKey] = JSONStringify(RELOAD)
    THEN "ReloadedWindow"
    ELSE IF KeyPresent(s) /\ s[_lastShutdownReasonKey] = JSONStringify(LOAD)
    THEN "ReopenedWindow"
    ELSE "NewWindow"

\* C8: the startup kind is ReloadedWindow when the value read at
\* construction is RELOAD, ReopenedWindow when it is LOAD and NewWindow
\* otherwise (absent included); a construction derives it from the text in
\* the store, and no later step of the same instance changes it.
C8_StartupKindDerivedOnce ==
    /\ [](_startupKind =
            CASE lastShutdownReason = Some(RELOAD) -> "ReloadedWindow"
              [] lastShutdownReason = Some(LOAD) -> "ReopenedWindow"
              [] OTHER -> "NewWindow")
    /\ [][instance' # instance => _startupKind' = KindOfStored(store)]_vars
    /\ [][instance' = instance => _startupKind' = _startupKind]_vars

\* A reloaded window has since vetoed a request: its kind is unchanged.
C8_Witness ==
    /\ instance = 2
    /\ _startupKind = "ReloadedWindow"
    /\ \E req \in DOMAIN requests : requests[req].veto = Some(TRUE)

\* ---- C9 ------------------------------------------------------------------
\* C9: after a construction and until the instance accepts a request the
\* key is absent from the store, whatever it held before; so an instance
\* constructed after an instance that accepted no request is a NewWindow.
C9_ConstructionClearsKey ==
    /\ [](requests = <<>> => ~KeyPresent(store))
    /\ [][instance' # instance => ~KeyPresent(store')]_vars
    /\ [][(instance' # instance /\ requests = <<>>) =>
            (lastShutdownReason' = None /\ _startupKind' = "NewWindow")]_vars

\* The second instance consumed the reason its predecessor left (it is a
\* reopened window) and the key is gone.
C9_Witness ==
    /\ instance = 2
    /\ requests = <<>>
    /\ lastShutdownReason = Some(LOAD)
    /\ ~KeyPresent(store)

\* ---- C10 -----------------------------------------------------------------
\* C10: onShutdown has fired once, with the request's reason, for every
\* request decided to proceed, and has not fired for a request that is
\* vetoed or undecided.
C10_ShutdownFiredOncePerProceed ==
    \A req \in DOMAIN requests :
        /\ Cardinality(CallsOf("onShutdown.fire", req)) =
               (IF requests[req].veto = Some(FALSE) THEN 1 ELSE 0)
        /\ \A k \in CallsOf("onShutdown.fire", req) :
               calls[k].arg = requests[req].reason

\* One request proceeded after its deferred objection completed with false,
\* another was vetoed by a failing deferred objection.
C10_Witness ==
    /\ \E req \in DOMAIN requests :
          /\ requests[req].vetos = <<Deferred("false")>>
          /\ Cardinality(CallsOf("onShutdown.fire", req)) = 1
    /\ \E req \in DOMAIN requests :
          /\ requests[req].vetos = <<Deferred("error")>>
          /\ requests[req].veto = Some(TRUE)

\* ---- C11 -----------------------------------------------------------------
\* C11: onWillShutdown has fired exactly once for every request, with the
\* request's reason, at a moment when willShutdown was true and the key held
\* the reason, and before every reply and every onShutdown of that request.
C11_WillShutdownFiredOnceFirst ==
    \A req \in DOMAIN requests :
        LET fires == CallsOf("onWillShutdown.fire", req) IN
        /\ Cardinality(fires) = 1
        /\ \A k \in fires :
              /\ calls[k].arg = requests[req].reason
              /\ calls[k].willShutdown = Some(TRUE)
              /\ KeyPresent(calls[k].store)
              /\ calls[k].store[_lastShutdownReasonKey] =
                     JSONStringify(requests[req].reason)
              /\ \A j \in CallsOf("ipc.send", req) \cup CallsOf("onShutdown.fire", req) :
                     k < j

\* A second request was broadcast after the first had been vetoed (the flag
\* was false and the key absent in between), its listeners submitted an
\* objection, and it has its reply.
C11_Witness ==
    /\ Len(requests) = 2
    /\ requests[1].veto = Some(TRUE)
    /\ \A k \in CallsOf("ipc.send", 1) : \A j \in CallsOf("onWillShutdown.fire", 2) : k < j
    /\ Len(requests[2].vetos) >= 1
    /\ CallsOf("ipc.send", 2) # {}

\* ---- C12 -----------------------------------------------------------------
\* C12 as stated: the key is in the store exactly when some request is
\* pending resolution.
C12_KeyPresentIffPending ==
    KeyPresent(store) <=> (\E req \in DOMAIN requests : requests[req].veto = None)

\* C12 (amended): the key is in the store exactly when a request has been
\* accepted since the construction and no veto has been decided since the
\* most recent acceptance, and it then holds the reason of the most recently
\* accepted request; so it holds R while a lone request with reason R is
\* pending, and it is still there after a decision to proceed.
C12_KeyPresentUntilVeto ==
    store =
        IF AcceptCalls # {} /\ \E a \in AcceptCalls : \A c \in CancelCalls : c < a
        THEN StorageStore(EmptyStore, _lastShutdownReasonKey,
                          JSONStringify(requests[Len(requests)].reason))
        ELSE EmptyStore

\* The first request was vetoed, the second, with another reason, has
\* proceeded: nothing is pending and the key holds the second reason.
C12_Witness ==
    /\ Len(requests) = 2
    /\ requests[1].veto = Some(TRUE)
    /\ requests[2].veto = Some(FALSE)
    /\ requests[1].reason # requests[2].reason
    /\ KeyPresent(store)

\* ---- C13 -----------------------------------------------------------------
\* C13: when the window id is sent on a cancel channel the key has been
\* removed and willShutdown is false; when it is sent on the ok channel of a
\* request, onShutdown has already been fired for that request, as the call
\* just before.
C13_EffectsBeforeReply ==
    /\ \A k \in CancelCalls :
          /\ ~KeyPresent(calls[k].store)
          /\ calls[k].willShutdown = Some(FALSE)
    /\ \A req \in DOMAIN requests :
          \A k \in Replies(req, "okChannel") :
              /\ k > 1
              /\ calls[k - 1].op = "onShutdown.fire"
              /\ calls[k - 1].req = req

\* A request was vetoed by a deferred objection that completed with true,
\* and another one proceeded after its deferred objection completed.
C13_Witness ==
    /\ \E req \in DOMAIN requests :
          /\ requests[req].vetos = <<Deferred("true")>>
          /\ Replies(req, "cancelChannel") # {}
    /\ \E req \in DOMAIN requests :
          /\ requests[req].vetos = <<Deferred("false")>>
          /\ Replies(req, "okChannel") # {}

\* ---- C14 -----------------------------------------------------------------
\* C14 as stated, in the form a finite run refutes: a request whose
\* deferred objections have all settled has its reply; a request without an
\* immediate true that still has an unsettled deferred objection has no
\* reply, and as long as it has none willShutdown is true and the reason is
\* in the store.
C14_HungRequestStalls ==
    \A req \in DOMAIN requests :
        LET vetos == requests[req].vetos IN
        /\ PendingIn(vetos) = {} => CallsOf("ipc.send", req) # {}
        /\ (~HasImmediateTrue(vetos) /\ PendingIn(vetos) # {}) =>
              /\ CallsOf("ipc.send", req) = {}
              /\ _willShutdown = Some(TRUE)
              /\ KeyPresent(store)

\* ---- C15 -----------------------------------------------------------------
\* C15: when the only request of an instance, with reason R, has proceeded,
\* the key held the text of R when the ok reply was sent, and an instance
\* constructed next is a ReloadedWindow for R = RELOAD, a ReopenedWindow for
\* R = LOAD and a NewWindow otherwise; when the only request was vetoed, an
\* instance constructed next is a NewWindow.
C15_ReasonRoundTrip ==
    /\ []((Len(requests) = 1 /\ requests[1].veto = Some(FALSE)) =>
            \A k \in Replies(1, "okChannel") :
                /\ KeyPresent(calls[k].store)
                /\ calls[k].store[_lastShutdownReasonKey] =
                       JSONStringify(requests[1].reason))
    /\ [][(instance' # instance /\ Len(requests) = 1
             /\ requests[1].veto = Some(FALSE)) =>
            _startupKind' = (IF requests[1].reason = RELOAD THEN "ReloadedWindow"
                             ELSE IF requests[1].reason = LOAD THEN "ReopenedWindow"
                             ELSE "NewWindow")]_vars
    /\ [][(instance' # instance /\ Len(requests) = 1
             /\ requests[1].veto = Some(TRUE)) =>
            _startupKind' = "NewWindow"]_vars

\* The second instance is a reopened window (its predecessor left LOAD in
\* the store), and its own LOAD request has proceeded, the key in place.
C15_Witness ==
    /\ instance = 2
    /\ KeyPresent(store)
    /\ _startupKind = "ReopenedWindow"
    /\ Len(requests) = 1
    /\ requests[1].veto = Some(FALSE)
    /\ requests[1].reason = LOAD
    /\ Replies(1, "okChannel") # {}

\* ---- C16 -----------------------------------------------------------------
\* The place of the first immediate true of a list that has one.
FirstImmediateTrue(vetos) ==
    CHOOSE t \in DOMAIN vetos :
        /\ ~vetos[t].promise /\ vetos[t].state = "true"
        /\ \A u \in 1..(t - 1) : vetos[u].promise \/ vetos[u].state # "true"

\* C16 as stated: for a request with an immediate true, no error is shown
\* for the request after its cancel reply has been sent.
C16_NoReportAfterShortCircuit ==
    \A req \in DOMAIN requests :
        HasImmediateTrue(requests[req].vetos) =>
            \A k \in CallsOf("messageService.show", req) :
                \A c \in Replies(req, "cancelChannel") : k < c

\* C16 (amended): when an immediate true short-circuits the resolution the
\* decision stays a veto with its one cancel reply, and the deferred
\* objections placed after the immediate true have no callbacks and cause
\* no error report; the ones placed before it keep their callbacks, so each
\* of them that fails, before or after the reply, is reported once.
C16_OnlyEarlierDeferredsReport ==
    \A req \in DOMAIN requests :
        LET vetos == requests[req].vetos IN
        HasImmediateTrue(vetos) =>
            LET t == FirstImmediateTrue(vetos) IN
            /\ requests[req].veto = Some(TRUE)
            /\ Cardinality(CallsOf("ipc.send", req)) = 1
            /\ requests[req].promises = {i \in DeferredIn(vetos) : i < t}
            /\ Cardinality(CallsOf("messageService.show", req)) =
                   Cardinality({i \in FailedIn(vetos) : i < t})

\* The deferred objection placed before the immediate true failed after the
\* cancel reply, and the error was shown.
C16_Witness ==
    \E req \in DOMAIN requests :
        /\ requests[req].vetos = <<Deferred("error"), Immediate(TRUE)>>
        /\ \E k \in CallsOf("messageService.show", req) :
              \E c \in Replies(req, "cancelChannel") : c < k

\* ---- C17 -----------------------------------------------------------------
\* The decision that the objections of one broadcast call for: none while a
\* deferred objection is awaited.
DecisionFor(vetos) ==
    IF HasImmediateTrue(vetos) THEN Some(TRUE)
    ELSE IF PendingIn(vetos) # {} THEN None
    ELSE Some(\E i \in DeferredIn(vetos) : vetos[i].state \in {"true", "error"})

\* C17: the decision of every request is the one its own objections call
\* for, whatever the other requests of the instance are and do, and a
\* decided request has exactly one reply, on the channel of its decision.
C17_RequestsIsolated ==
    \A req \in DOMAIN requests :
        /\ requests[req].veto = DecisionFor(requests[req].vetos)
        /\ Cardinality(CallsOf("ipc.send", req)) =
               (IF requests[req].veto = None THEN 0 ELSE 1)
        /\ \A k \in CallsOf("ipc.send", req) :
               calls[k].channel =
                   (IF requests[req].veto = Some(TRUE) THEN "cancelChannel"
                    ELSE "okChannel")

\* The second request was accepted while the first was waiting for its
\* deferred objection; the second was vetoed by a deferred objection that
\* failed, the first has proceeded.
C17_Witness ==
    /\ Len(requests) = 2
    /\ \E a \in CallsOf("onWillShutdown.fire", 2) :
          \A k \in CallsOf("ipc.send", 1) : a < k
    /\ requests[1].vetos = <<Deferred("false")>>
    /\ requests[1].veto = Some(FALSE)
    /\ requests[2].vetos = <<Deferred("error")>>
    /\ requests[2].veto = Some(TRUE)
    /\ Replies(1, "okChannel") # {}
    /\ Replies(2, "cancelChannel") # {}

\* ---- C18 -----------------------------------------------------------------
\* C18 as stated: whenever an ok reply is sent for a request with reason R
\* the key holds R and willShutdown is true, and whenever some request is
\* pending resolution willShutdown is true and the key is present.
C18_FlagAndKeyHeldWhilePending ==
    /\ \A req \in DOMAIN requests :
          \A k \in Replies(req, "okChannel") :
              /\ calls[k].willShutdown = Some(TRUE)
              /\ KeyPresent(calls[k].store)
              /\ calls[k].store[_lastShutdownReasonKey] =
                     JSONStringify(requests[req].reason)
    /\ (\E req \in DOMAIN requests : requests[req].veto = None) =>
          (_willShutdown = Some(TRUE) /\ KeyPresent(store))

\* ---- C19 -----------------------------------------------------------------
\* C19: every objection of the broadcast is taken into account (an
\* immediate true anywhere in the list vetoes, and without one every
\* deferred objection of the list is awaited), while a veto call after the
\* broadcast changes nothing but the abandoned array: the step itself
\* leaves the store, the flag, the calls and every request's decision as
\* they are, and afterwards the decision and the error reports of each
\* request are still those of the objections of its broadcast.
C19_OnlyBroadcastVetosCount ==
    /\ [](\A req \in DOMAIN requests :
            LET r == requests[req] IN
            /\ HasImmediateTrue(r.vetos) => r.veto = Some(TRUE)
            /\ ~HasImmediateTrue(r.vetos) => r.promises = DeferredIn(r.vetos)
            /\ r.late # <<>> =>
                  /\ r.veto = DecisionFor(r.vetos)
                  /\ Cardinality(CallsOf("messageService.show", req)) <=
                         Cardinality(FailedIn(r.vetos)))
    /\ [][\A req \in DOMAIN requests :
            (req \in DOMAIN requests' /\ requests'[req].late # requests[req].late) =>
                /\ store' = store
                /\ _willShutdown' = _willShutdown
                /\ calls' = calls
                /\ requests = [requests' EXCEPT ![req].late = requests[req].late]]_vars

\* The broadcast collected one promise, a veto(true) was called on the
\* retained event, the promise completed with false: the request has
\* proceeded.
C19_Witness ==
    \E req \in DOMAIN requests :
        /\ requests[req].vetos = <<Deferred("false")>>
        /\ requests[req].late = <<Immediate(TRUE)>>
        /\ requests[req].veto = Some(FALSE)
        /\ Replies(req, "okChannel") # {}

====
